---- MODULE Spec2Model ----
(***************************************************************************)
(* Moderation command handlers of the ModSlash cogs                        *)
(* (src/insane-moderation/modslash.py and src/modslash/modslash.py).       *)
(*                                                                         *)
(* One command invocation is followed from the dispatch of the command     *)
(* through the app_commands check is_mod_check, the handler's guard        *)
(* comparisons, the single client-library mutation call and the response.  *)
(* Every `await` of the source is a step boundary, so the cog can be       *)
(* unloaded between two steps of an invocation in flight.                  *)
(*                                                                         *)
(* Roles are identified with their position in the guild's hierarchy:      *)
(* role 0 is @everyone, which every member holds; discord.Role compares    *)
(* by position, so top_role <= top_role is a comparison of positions.      *)
(***************************************************************************)
EXTENDS Integers, Sequences, FiniteSets, TLC

\* Highest role position of the modelled guild (role 0 is @everyone).
MaxRole == 1

Roles == 0..MaxRole

Members == {"alice", "bob"}

Range(s) == {s[k] : k \in 1..Len(s)}

\* Persisted mod_roles lists: sequences of role ids without repetition.
ModRoleLists ==
    {s \in UNION {[1..n -> Roles] : n \in 0..(MaxRole + 1)} :
        \A a, b \in 1..Len(s) : a # b => s[a] # s[b]}

SetMax(S) == CHOOSE m \in S : \A x \in S : x <= m

\* member.top_role: the highest role the member holds.
top_role(roles) == SetMax(roles)

Unset == "unset"

VoiceActions == {"mute", "unmute", "deafen", "undeafen", "silence", "unsilence"}

-----------------------------------------------------------------------------
(* The handlers: the guard comparisons each one evaluates, in source order, *)
(* and the client-library call it issues when none of them rejects.         *)

\* The audit-log reason a handler composes: the verb, who is named as the
\* moderator and what follows.
\*   slash:        f"Kicked by {author.name} ({author.id}). Reason: {reason}"
\*   slash, undo:  f"Unmuted by {author.name} ({author.id})."
\*   context menu: f"Kicked by {author.display_name} via context menu."
SlashReason(verb) == <<verb, "name_and_id", "reason_argument">>
SlashUndoReason(verb) == <<verb, "name_and_id", "nothing">>
ContextReason(verb) == <<verb, "display_name", "via_context_menu">>

KickCall(r) == [op |-> "kick", mute |-> Unset, deafen |-> Unset, reason |-> r]
BanCall(r) == [op |-> "ban", mute |-> Unset, deafen |-> Unset, reason |-> r]
EditCall(m, d, r) == [op |-> "edit", mute |-> m, deafen |-> d, reason |-> r]

\* src/insane-moderation/modslash.py
kick_slash ==
    [action |-> "kick", checks |-> <<"self", "actor", "bot">>,
     call |-> KickCall(SlashReason("Kicked"))]
ban_slash ==
    [action |-> "ban", checks |-> <<"self", "actor", "bot">>,
     call |-> BanCall(SlashReason("Banned"))]
\* Variant of mute_slash comparing ranks before looking at the voice state.
mute_slash_RankFirst ==
    [action |-> "mute", checks |-> <<"actor", "voice">>,
     call |-> EditCall("True", Unset, SlashReason("Muted"))]
mute_slash ==
    [action |-> "mute", checks |-> <<"voice", "actor">>,
     call |-> EditCall("True", Unset, SlashReason("Muted"))]
unmute_slash ==
    [action |-> "unmute", checks |-> <<"voice", "actor">>,
     call |-> EditCall("False", Unset, SlashUndoReason("Unmuted"))]
deafen_slash ==
    [action |-> "deafen", checks |-> <<"voice", "actor">>,
     call |-> EditCall(Unset, "True", SlashReason("Deafened"))]
undeafen_slash ==
    [action |-> "undeafen", checks |-> <<"voice", "actor">>,
     call |-> EditCall(Unset, "False", SlashUndoReason("Undeafened"))]
\* Variant of silence_slash that forgets the deafen flag.
silence_slash_MuteOnly ==
    [action |-> "silence", checks |-> <<"voice", "actor">>,
     call |-> EditCall("True", Unset, SlashReason("Silenced"))]
silence_slash ==
    [action |-> "silence", checks |-> <<"voice", "actor">>,
     call |-> EditCall("True", "True", SlashReason("Silenced"))]
unsilence_slash ==
    [action |-> "unsilence", checks |-> <<"voice", "actor">>,
     call |-> EditCall("False", "False", SlashUndoReason("Unsilenced"))]

\* src/modslash/modslash.py, slash commands
\* Variant of the second file's kick_slash without the bot comparison.
ms_kick_slash_NoBotCheck ==
    [action |-> "kick", checks |-> <<"self", "actor">>,
     call |-> KickCall(SlashReason("Kicked"))]
ms_kick_slash ==
    [action |-> "kick", checks |-> <<"self", "actor", "bot">>,
     call |-> KickCall(SlashReason("Kicked"))]
ms_ban_slash ==
    [action |-> "ban", checks |-> <<"self", "actor", "bot">>,
     call |-> BanCall(SlashReason("Banned"))]
ms_mute_slash ==
    [action |-> "mute", checks |-> <<"voice", "actor">>,
     call |-> EditCall("True", Unset, SlashReason("Muted"))]
ms_unmute_slash ==
    [action |-> "unmute", checks |-> <<"voice", "actor">>,
     call |-> EditCall("False", Unset, SlashUndoReason("Unmuted"))]
ms_deafen_slash ==
    [action |-> "deafen", checks |-> <<"voice", "actor">>,
     call |-> EditCall(Unset, "True", SlashReason("Deafened"))]
ms_undeafen_slash ==
    [action |-> "undeafen", checks |-> <<"voice", "actor">>,
     call |-> EditCall(Unset, "False", SlashUndoReason("Undeafened"))]
ms_silence_slash ==
    [action |-> "silence", checks |-> <<"voice", "actor">>,
     call |-> EditCall("True", "True", SlashReason("Silenced"))]
ms_unsilence_slash ==
    [action |-> "unsilence", checks |-> <<"voice", "actor">>,
     call |-> EditCall("False", "False", SlashUndoReason("Unsilenced"))]

\* src/modslash/modslash.py, context-menu commands
kick_context_menu ==
    [action |-> "kick", checks |-> <<"self", "actor", "bot">>,
     call |-> KickCall(ContextReason("Kicked"))]
ban_context_menu ==
    [action |-> "ban", checks |-> <<"self", "actor", "bot">>,
     call |-> BanCall(ContextReason("Banned"))]
mute_context_menu ==
    [action |-> "mute", checks |-> <<"voice", "actor">>,
     call |-> EditCall("True", Unset, ContextReason("Muted"))]
deafen_context_menu ==
    [action |-> "deafen", checks |-> <<"voice", "actor">>,
     call |-> EditCall(Unset, "True", ContextReason("Deafened"))]

InsaneHandlers ==
    {"kick_slash", "ban_slash", "mute_slash", "unmute_slash", "deafen_slash",
     "undeafen_slash", "silence_slash", "unsilence_slash"}

ModslashHandlers ==
    {"ms_kick_slash", "ms_ban_slash", "ms_mute_slash", "ms_unmute_slash",
     "ms_deafen_slash", "ms_undeafen_slash", "ms_silence_slash", "ms_unsilence_slash"}

ContextMenus ==
    {"kick_context_menu", "ban_context_menu", "mute_context_menu", "deafen_context_menu"}

HandlerNames == InsaneHandlers \cup ModslashHandlers \cup ContextMenus

Handler(h) ==
    CASE h = "kick_slash" -> kick_slash
      [] h = "ban_slash" -> ban_slash
      [] h = "mute_slash" -> mute_slash
      [] h = "unmute_slash" -> unmute_slash
      [] h = "deafen_slash" -> deafen_slash
      [] h = "undeafen_slash" -> undeafen_slash
      [] h = "silence_slash" -> silence_slash
      [] h = "unsilence_slash" -> unsilence_slash
      [] h = "ms_kick_slash" -> ms_kick_slash
      [] h = "ms_ban_slash" -> ms_ban_slash
      [] h = "ms_mute_slash" -> ms_mute_slash
      [] h = "ms_unmute_slash" -> ms_unmute_slash
      [] h = "ms_deafen_slash" -> ms_deafen_slash
      [] h = "ms_undeafen_slash" -> ms_undeafen_slash
      [] h = "ms_silence_slash" -> ms_silence_slash
      [] h = "ms_unsilence_slash" -> ms_unsilence_slash
      [] h = "kick_context_menu" -> kick_context_menu
      [] h = "ban_context_menu" -> ban_context_menu
      [] h = "mute_context_menu" -> mute_context_menu
      [] h = "deafen_context_menu" -> deafen_context_menu

-----------------------------------------------------------------------------
VARIABLES
    mod_roles,   \* the guild's persisted mod_roles list
    cogLoaded,   \* whether bot.get_cog("ModSlash") finds the cog
    pc,          \* position of the invocation in flight
    inv,         \* the invocation: handler and the principals it concerns
    guard,       \* outcome of is_mod_check: "pending", "true", "false"
    step,        \* index of the handler's next guard comparison
    trace,       \* what the invocation has evaluated so far, in order
    msgs,        \* messages delivered through interaction.response
    calls,       \* client-library mutation calls issued
    raised,      \* an exception left the handler
    fault,       \* how the mutation call ended: "none", "returned" or the exception
    exc,         \* the exception an except clause is handling
    errText,     \* the texts interpolated into "An error occurred: {e}"
    flags,       \* the target's server-mute and server-deafen flags
    cmd,         \* configuration commands: the command of each task
    cpc,         \* configuration commands: position of each task
    raw,         \* configuration commands: the list handed to the with-body
    orig,        \* configuration commands: the copy taken on entry
    reply,       \* configuration commands: the reply of each task
    lock,        \* holder of the lock of the guild's mod_roles value, 0 if free
    log          \* configuration commands completed, in the order they left

outVars == <<fault, exc, errText, flags>>

cfgVars == <<cmd, cpc, raw, orig, reply, lock, log>>

invVars == <<cogLoaded, pc, inv, guard, step, trace, msgs, calls, raised, outVars>>

vars == <<mod_roles, invVars, cfgVars>>

NoFlags == [mute |-> FALSE, deafen |-> FALSE]

NoInv ==
    [handler |-> "none", actor |-> "none", target |-> "none", isOwner |-> FALSE,
     actorRoles |-> {0}, targetTop |-> 0, botTop |-> 0, inVoice |-> FALSE,
     flags |-> NoFlags, mod_role_ids |-> <<>>, cogFound |-> FALSE]

\* The requests a command can be invoked with.  A member who targets
\* themself is their own target: same id, same top role.  A member outside
\* voice (member.voice is None) has no voice state, hence no flags set.
Requests ==
    {i \in [handler : HandlerNames, actor : Members, target : Members,
            isOwner : BOOLEAN, actorRoles : {{0} \cup S : S \in SUBSET Roles},
            targetTop : Roles, botTop : Roles, inVoice : BOOLEAN,
            flags : [mute : BOOLEAN, deafen : BOOLEAN],
            mod_role_ids : {<<>>}, cogFound : {FALSE}] :
        /\ i.target = i.actor => i.targetTop = top_role(i.actorRoles)
        /\ ~i.inVoice => i.flags = NoFlags}

NoExc == [type |-> "none", origin |-> "none"]

Tasks == {1, 2}

NoCmd == [op |-> "none", role |-> 0]

\* The invocation variables when no command is being handled.
InvIdle ==
    /\ cogLoaded = TRUE
    /\ pc = "idle"
    /\ inv = NoInv
    /\ guard = "pending"
    /\ step = 1
    /\ trace = <<>>
    /\ msgs = <<>>
    /\ calls = <<>>
    /\ raised = FALSE
    /\ fault = "none"
    /\ exc = NoExc
    /\ errText = <<>>
    /\ flags = NoFlags

\* The configuration variables when no configuration command is running.
CfgIdle ==
    /\ cmd = [t \in Tasks |-> NoCmd]
    /\ cpc = [t \in Tasks |-> "idle"]
    /\ raw = [t \in Tasks |-> <<>>]
    /\ orig = [t \in Tasks |-> <<>>]
    /\ reply = [t \in Tasks |-> "none"]
    /\ lock = 0
    /\ log = <<>>

Init ==
    /\ mod_roles \in ModRoleLists
    /\ InvIdle
    /\ CfgIdle

-----------------------------------------------------------------------------
(* Dispatch of a command.  The command is registered only while the cog is  *)
(* loaded; the principals' attributes are read from the platform's state at *)
(* invocation time.                                                         *)
Invoke ==
    /\ pc = "idle"
    /\ cogLoaded
    /\ \E i \in Requests : inv' = i /\ flags' = i.flags
    /\ pc' = "is_owner"
    /\ UNCHANGED <<cfgVars, mod_roles, cogLoaded, guard, step, trace, msgs, calls, raised,
                   fault, exc, errText>>

\* Variant of GuardReturns in which the handler runs whatever the check returned.
GuardReturns_EnterAlways(result) ==
    /\ guard' = (IF result THEN "true" ELSE "false")
    /\ pc' = "body"

\* Outcome of the check: False ends the invocation, True enters the handler.
GuardReturns(result) ==
    /\ guard' = (IF result THEN "true" ELSE "false")
    /\ pc' = (IF result THEN "body" ELSE "done")

\* Variant of CheckIsOwner without the owner bypass.
CheckIsOwner_NoBypass ==
    /\ pc = "is_owner"
    /\ trace' = Append(trace, "is_owner")
    /\ pc' = "get_cog"
    /\ UNCHANGED <<cfgVars, outVars, mod_roles, cogLoaded, inv, guard, step, msgs, calls, raised>>

(* is_mod_check: `if await interaction.client.is_owner(interaction.user)`.  *)
CheckIsOwner ==
    /\ pc = "is_owner"
    /\ trace' = Append(trace, "is_owner")
    /\ IF inv.isOwner
         THEN GuardReturns(TRUE)
         ELSE pc' = "get_cog" /\ UNCHANGED guard
    /\ UNCHANGED <<cfgVars, outVars, mod_roles, cogLoaded, inv, step, msgs, calls, raised>>

(* is_mod_check: `cog = get_cog("ModSlash")`, `if not cog: return False`.   *)
CheckGetCog ==
    /\ pc = "get_cog"
    /\ trace' = Append(trace, "get_cog")
    /\ inv' = [inv EXCEPT !.cogFound = cogLoaded]
    /\ IF ~cogLoaded
         THEN GuardReturns(FALSE)
         ELSE pc' = "mod_roles" /\ UNCHANGED guard
    /\ UNCHANGED <<cfgVars, outVars, mod_roles, cogLoaded, step, msgs, calls, raised>>

\* Variant of CheckModRoles without the test for an empty list.
CheckModRoles_NoEmptyTest ==
    /\ pc = "mod_roles"
    /\ trace' = Append(trace, "mod_roles")
    /\ inv' = [inv EXCEPT !.mod_role_ids = mod_roles]
    /\ pc' = "intersection"
    /\ UNCHANGED <<cfgVars, outVars, mod_roles, cogLoaded, guard, step, msgs, calls, raised>>

(* is_mod_check: `mod_role_ids = await ...mod_roles()` and the test for an  *)
(* empty list, with its notice.                                             *)
CheckModRoles ==
    /\ pc = "mod_roles"
    /\ trace' = Append(trace, "mod_roles")
    /\ inv' = [inv EXCEPT !.mod_role_ids = mod_roles]
    /\ IF mod_roles = <<>>
         THEN /\ msgs' = Append(msgs, "no_roles_configured")
              /\ GuardReturns(FALSE)
         ELSE /\ pc' = "intersection"
              /\ UNCHANGED <<msgs, guard>>
    /\ UNCHANGED <<cfgVars, outVars, mod_roles, cogLoaded, step, calls, raised>>

\* Variant of CheckIntersection looking at the first configured role only.
CheckIntersection_FirstOnly ==
    /\ pc = "intersection"
    /\ trace' = Append(trace, "intersection")
    /\ IF inv.mod_role_ids[1] \notin inv.actorRoles
         THEN /\ msgs' = Append(msgs, "no_required_role")
              /\ GuardReturns(FALSE)
         ELSE /\ UNCHANGED msgs
              /\ GuardReturns(TRUE)
    /\ UNCHANGED <<cfgVars, outVars, mod_roles, cogLoaded, inv, step, calls, raised>>

(* is_mod_check: `author_role_ids.intersection(mod_role_ids)`.              *)
CheckIntersection ==
    /\ pc = "intersection"
    /\ trace' = Append(trace, "intersection")
    /\ IF inv.actorRoles \cap Range(inv.mod_role_ids) = {}
         THEN /\ msgs' = Append(msgs, "no_required_role")
              /\ GuardReturns(FALSE)
         ELSE /\ UNCHANGED msgs
              /\ GuardReturns(TRUE)
    /\ UNCHANGED <<cfgVars, outVars, mod_roles, cogLoaded, inv, step, calls, raised>>

-----------------------------------------------------------------------------
(* The guard comparisons of the handlers.                                   *)

\* `if not member.voice or not member.voice.channel`
_check_voice_channel(i) == i.inVoice

\* `if member.id == author.id`
SelfTarget(i) == i.target = i.actor

\* Variant of ActorOutranked with a strict comparison.
ActorOutranked_Strict(i) == top_role(i.actorRoles) < i.targetTop /\ ~i.isOwner

\* `if author.top_role <= member.top_role and not await is_owner(author)`
ActorOutranked(i) == top_role(i.actorRoles) <= i.targetTop /\ ~i.isOwner

\* `if interaction.guild.me.top_role <= member.top_role`
BotOutranked(i) == i.botTop <= i.targetTop

Rejects(c, i) ==
    CASE c = "voice" -> ~_check_voice_channel(i)
      [] c = "self" -> SelfTarget(i)
      [] c = "actor" -> ActorOutranked(i)
      [] c = "bot" -> BotOutranked(i)

RejectMsg(c) ==
    CASE c = "voice" -> "not_in_voice_channel"
      [] c = "self" -> "cannot_target_yourself"
      [] c = "actor" -> "equal_or_higher_role"
      [] c = "bot" -> "equal_or_higher_role_than_me"

(* One guard comparison of the handler body: a rejection sends its message  *)
(* and returns; otherwise the next comparison, or the try block, follows.   *)
HandlerCheck ==
    /\ pc = "body"
    /\ LET checks == Handler(inv.handler).checks
           c == checks[step]
       IN /\ trace' = Append(trace, c)
          /\ IF Rejects(c, inv)
               THEN /\ msgs' = Append(msgs, RejectMsg(c))
                    /\ pc' = "done"
                    /\ UNCHANGED step
               ELSE /\ UNCHANGED msgs
                    /\ step' = step + 1
                    /\ pc' = (IF step = Len(checks) THEN "mutate" ELSE "body")
    /\ UNCHANGED <<cfgVars, outVars, mod_roles, cogLoaded, inv, guard, calls, raised>>

\* What the platform does with a call that returns: member.edit changes the
\* fields it is given and no other; kick and ban leave the voice flags alone.
ApplyCall(call, f) ==
    IF call.op = "edit"
      THEN [mute |-> IF call.mute = Unset THEN f.mute ELSE call.mute = "True",
            deafen |-> IF call.deafen = Unset THEN f.deafen ELSE call.deafen = "True"]
      ELSE f

\* Variant of ExceptClause with `except Exception` written first.
ExceptClause_ExceptionFirst(e) == "except_exception"

\* Which except clause of the handlers' try statement takes an exception:
\* `except discord.Forbidden` is tried first, `except Exception` second.
ExceptClause(e) ==
    IF e.type = "Forbidden" THEN "except_forbidden" ELSE "except_exception"

\* str(e) of the exception e.
Describe(e) == <<e.type, e.origin>>

(* `await member.kick(...)`, `member.ban(...)` or `member.edit(...)`: the   *)
(* call returns, raises discord.Forbidden, or raises another exception.     *)
Mutate ==
    /\ pc = "mutate"
    /\ trace' = Append(trace, "mutate")
    /\ calls' = Append(calls, Handler(inv.handler).call)
    /\ \/ /\ fault' = "returned"
          /\ flags' = ApplyCall(Handler(inv.handler).call, flags)
          /\ pc' = "confirm"
          /\ UNCHANGED exc
       \/ \E e \in {"Forbidden", "HTTPException"} :
             /\ fault' = e
             /\ exc' = [type |-> e, origin |-> "mutation"]
             /\ pc' = ExceptClause(exc')
             /\ UNCHANGED flags
    /\ UNCHANGED <<cfgVars, mod_roles, cogLoaded, inv, guard, step, msgs, raised, errText>>

(* The confirmation, sent inside the try block: an exception raised by      *)
(* send_message is caught by the except clauses of the same try statement.  *)
Confirm ==
    /\ pc = "confirm"
    /\ \/ msgs' = Append(msgs, "successfully") /\ pc' = "done" /\ UNCHANGED exc
       \/ \E e \in {"Forbidden", "HTTPException"} :
             /\ exc' = [type |-> e, origin |-> "send_message"]
             /\ pc' = ExceptClause(exc')
             /\ UNCHANGED msgs
    /\ UNCHANGED <<cfgVars, mod_roles, cogLoaded, inv, guard, step, trace, calls, raised,
                   fault, errText, flags>>

(* `except discord.Forbidden:` sends the fixed message; an exception raised *)
(* inside an except clause leaves the handler.                              *)
ExceptForbidden ==
    /\ pc = "except_forbidden"
    /\ \/ msgs' = Append(msgs, "no_permissions") /\ UNCHANGED raised
       \/ UNCHANGED msgs /\ raised' = TRUE
    /\ pc' = "done"
    /\ UNCHANGED <<cfgVars, outVars, mod_roles, cogLoaded, inv, guard, step, trace, calls>>

\* Variant of ExceptException that tries the mutation again.
ExceptException_Retry ==
    /\ pc = "except_exception"
    /\ pc' = "mutate"
    /\ UNCHANGED <<cfgVars, outVars, mod_roles, cogLoaded, inv, guard, step, trace, msgs, calls, raised>>

(* `except Exception as e:` sends the failure's description.                *)
ExceptException ==
    /\ pc = "except_exception"
    /\ \/ /\ msgs' = Append(msgs, "an_error_occurred")
          /\ errText' = Append(errText, Describe(exc))
          /\ UNCHANGED raised
       \/ UNCHANGED <<msgs, errText>> /\ raised' = TRUE
    /\ pc' = "done"
    /\ UNCHANGED <<cfgVars, mod_roles, cogLoaded, inv, guard, step, trace, calls,
                   fault, exc, flags>>

(* The invocation is over; the ActionRequest is discarded.                  *)
Return ==
    /\ pc = "done"
    /\ pc' = "idle"
    /\ inv' = NoInv
    /\ guard' = "pending"
    /\ step' = 1
    /\ trace' = <<>>
    /\ msgs' = <<>>
    /\ calls' = <<>>
    /\ raised' = FALSE
    /\ fault' = "none"
    /\ exc' = NoExc
    /\ errText' = <<>>
    /\ flags' = NoFlags
    /\ UNCHANGED <<cfgVars, mod_roles, cogLoaded>>

(* The host unloads the cog, at any point between two awaits.               *)
cog_unload ==
    /\ cogLoaded
    /\ cogLoaded' = FALSE
    /\ UNCHANGED <<cfgVars, outVars, mod_roles, pc, inv, guard, step, trace, msgs, calls, raised>>

(* The host loads the cog: bot.add_cog(ModSlash(bot)).                      *)
setup ==
    /\ ~cogLoaded
    /\ cogLoaded' = TRUE
    /\ UNCHANGED <<cfgVars, outVars, mod_roles, pc, inv, guard, step, trace, msgs, calls, raised>>

Next ==
    \/ Invoke
    \/ CheckIsOwner
    \/ CheckGetCog
    \/ CheckModRoles
    \/ CheckIntersection
    \/ HandlerCheck
    \/ Mutate
    \/ Confirm
    \/ ExceptForbidden
    \/ ExceptException
    \/ Return
    \/ cog_unload
    \/ setup

Spec == Init /\ [][Next]_vars

-----------------------------------------------------------------------------
(* Vocabulary of the properties.                                            *)

Done == pc = "done"

\* The check returned True and the handler body was entered.
HandlerRan == guard = "true" /\ inv.handler \in HandlerNames

IsVoice == Handler(inv.handler).action \in VoiceActions

\* For a voice action, the target is present in a voice channel.
VoiceSatisfied == IsVoice => inv.inVoice

Evaluated(c) == \E k \in 1..Len(trace) : trace[k] = c

IsGuardNotice(m) == m \in {"no_roles_configured", "no_required_role"}

GuardNotices == SelectSeq(msgs, IsGuardNotice)

IsRejection(m) ==
    m \in {"not_in_voice_channel", "cannot_target_yourself", "equal_or_higher_role",
           "equal_or_higher_role_than_me"}

ActorHoldsModRole(list) == inv.actorRoles \cap Range(list) # {}

\* None of the handler's own guard comparisons rejects the request.
HandlerChecksPass ==
    LET checks == Handler(inv.handler).checks
    IN \A k \in 1..Len(checks) : ~Rejects(checks[k], inv)

-----------------------------------------------------------------------------
(* C1: whenever the bot's highest role is not above the target's, every     *)
(* handler that gets as far as the bot comparison (the check returned True, *)
(* a voice target is in a voice channel, the target is not the actor, and   *)
(* the actor is the owner or outranks the target) ends with the "equal or   *)
(* higher role than me" message and issues no platform mutation.            *)
C1_BotOutrankedRejects ==
    (/\ HandlerRan
     /\ VoiceSatisfied
     /\ inv.target # inv.actor
     /\ (inv.isOwner \/ top_role(inv.actorRoles) > inv.targetTop)
     /\ inv.botTop <= inv.targetTop)
    => /\ calls = <<>>
       /\ Done => msgs = <<"equal_or_higher_role_than_me">>

(* C2: whenever the target is the actor, every handler (for a voice action, *)
(* once the target is known to be in a voice channel) ends with the "cannot *)
(* target yourself" message without having evaluated a rank comparison and  *)
(* without a platform mutation, for owners and non-owners alike.            *)
C2_SelfTargetRejectsFirst ==
    (/\ HandlerRan
     /\ VoiceSatisfied
     /\ inv.target = inv.actor)
    => /\ calls = <<>>
       /\ ~Evaluated("actor") /\ ~Evaluated("bot")
       /\ Done => msgs = <<"cannot_target_yourself">>

(* C3, as stated: a non-owner actor whose highest role is not above the     *)
(* target's, acting on another member, always gets the "equal or higher     *)
(* role" message and causes no platform mutation.                           *)
C3_ActorOutrankedAlwaysMessage ==
    (/\ HandlerRan
     /\ ~inv.isOwner
     /\ inv.target # inv.actor
     /\ top_role(inv.actorRoles) <= inv.targetTop)
    => /\ calls = <<>>
       /\ Done => msgs = <<"equal_or_higher_role">>

(* C3, amended: the same, provided that for a voice action the target is in *)
(* a voice channel (otherwise the voice check answers first).               *)
C3_ActorOutrankedRejects ==
    (/\ HandlerRan
     /\ ~inv.isOwner
     /\ inv.target # inv.actor
     /\ top_role(inv.actorRoles) <= inv.targetTop
     /\ VoiceSatisfied)
    => /\ calls = <<>>
       /\ pc \in {"body", "done"}
       /\ Done => msgs = <<"equal_or_higher_role">>

C3_Witness ==
    /\ Done /\ HandlerRan /\ ~inv.isOwner /\ inv.target # inv.actor
    /\ top_role(inv.actorRoles) = inv.targetTop
    /\ inv.handler = "kick_slash"
    /\ inv.botTop > inv.targetTop
    /\ msgs = <<"equal_or_higher_role">> /\ calls = <<>>

(* C4: is_mod_check runs to completion before anything of the handler body; *)
(* a platform mutation is issued only in an invocation whose check returned *)
(* True; an actor who is neither owner nor holder of a configured moderator *)
(* role never causes a mutation.                                            *)
C4_GuardBeforeMutation ==
    /\ pc \in {"body", "mutate", "confirm", "except_forbidden", "except_exception"}
          => guard = "true"
    /\ \A k \in 1..Len(trace) :
          trace[k] \in {"voice", "self", "actor", "bot", "mutate"}
             => guard = "true" /\ k > 1 /\ trace[1] = "is_owner"
    /\ calls # <<>> => guard = "true"
    /\ calls # <<>> => inv.isOwner \/ ActorHoldsModRole(inv.mod_role_ids)
    /\ guard = "false" => calls = <<>> /\ pc = "done"

C4_Witness ==
    /\ calls # <<>> /\ guard = "true" /\ ~inv.isOwner
    /\ ActorHoldsModRole(mod_roles)

(* C5: for an actor that is the owner, is_mod_check returns True whatever   *)
(* the configured moderator roles and the actor's roles are, and sends no   *)
(* rejection notice.                                                        *)
C5_OwnerBypass ==
    (inv.isOwner /\ guard # "pending") => guard = "true" /\ GuardNotices = <<>>

C5_Witness ==
    /\ inv.isOwner /\ guard = "true" /\ pc = "body"
    /\ mod_roles = <<>> /\ inv.actorRoles = {0} /\ msgs = <<>>

(* C6, as stated: with an empty moderator-role list the check returns False *)
(* and emits the "no roles configured" notice, for any invoking actor.      *)
C6_EmptyConfigAlwaysFalse ==
    (guard # "pending" /\ mod_roles = <<>>)
    => guard = "false" /\ GuardNotices = <<"no_roles_configured">>

(* C6, amended: with an empty moderator-role list the check returns False   *)
(* for every actor that is not the owner; it emits exactly the "no roles    *)
(* configured" notice when it found the cog and read the list, and no       *)
(* notice when the cog was not found.                                       *)
C6_EmptyConfigFailsClosed ==
    (guard # "pending" /\ mod_roles = <<>> /\ ~inv.isOwner)
    => /\ guard = "false"
       /\ calls = <<>>
       /\ msgs = (IF inv.cogFound THEN <<"no_roles_configured">> ELSE <<>>)

C6_Witness ==
    /\ guard = "false" /\ mod_roles = <<>> /\ ~inv.isOwner
    /\ inv.actorRoles # {0}
    /\ msgs = <<"no_roles_configured">>

(* C7, as stated: for a non-owner actor the check returns True if and only  *)
(* if the actor's role ids and the configured moderator role ids have an    *)
(* element in common.                                                       *)
C7_TrueIffIntersection ==
    (guard # "pending" /\ ~inv.isOwner)
    => (guard = "true" <=> ActorHoldsModRole(mod_roles))

(* C7, amended: for a non-owner actor the check returns True if and only if *)
(* the cog instance was found and the actor's role ids and the configured   *)
(* moderator role ids have an element in common.                            *)
C7_TrueIffCogAndIntersection ==
    (guard # "pending" /\ ~inv.isOwner)
    => (guard = "true" <=> (inv.cogFound /\ ActorHoldsModRole(mod_roles)))

C7_Witness ==
    /\ guard = "true" /\ ~inv.isOwner
    /\ Len(mod_roles) = 2 /\ mod_roles[1] \notin inv.actorRoles
    /\ mod_roles[2] \in inv.actorRoles

(* C8: whenever is_mod_check has returned False it has sent exactly one     *)
(* notice to the invoker.                                                   *)
C8_OneNoticeOnFalse ==
    guard = "false" => Len(GuardNotices) = 1

(* C9: for a voice action whose target is in no voice channel the handler   *)
(* replies "not in a voice channel" and stops; no hierarchy comparison is   *)
(* evaluated and no mutation is issued, also when the target outranks the   *)
(* actor or the bot.                                                        *)
C9_VoiceCheckFirst ==
    (HandlerRan /\ IsVoice /\ ~inv.inVoice)
    => /\ calls = <<>>
       /\ pc \in {"body", "done"}
       /\ ~Evaluated("self") /\ ~Evaluated("actor") /\ ~Evaluated("bot")
       /\ Done => msgs = <<"not_in_voice_channel">> /\ Evaluated("voice")

C9_Witness ==
    /\ Done /\ HandlerRan /\ inv.handler = "mute_slash" /\ ~inv.inVoice
    /\ ~inv.isOwner /\ top_role(inv.actorRoles) <= inv.targetTop
    /\ inv.botTop <= inv.targetTop
    /\ msgs = <<"not_in_voice_channel">>

(* C10: an invocation issues at most one platform mutation call: exactly    *)
(* one once the check returned True and none of the handler's comparisons   *)
(* rejected, none when the check or a comparison rejected, and still one    *)
(* after the call failed.                                                   *)
C10_AtMostOneMutation ==
    /\ Len(calls) <= 1
    /\ (\E k \in 1..Len(msgs) : IsRejection(msgs[k]) \/ IsGuardNotice(msgs[k]))
          => calls = <<>>
    /\ pc \in {"confirm", "except_forbidden", "except_exception"} => Len(calls) = 1
    /\ Done =>
          Len(calls) = (IF HandlerRan /\ HandlerChecksPass THEN 1 ELSE 0)

C10_Witness ==
    /\ Done /\ HandlerRan /\ HandlerChecksPass
    /\ msgs = <<"no_permissions">>
    /\ Len(calls) = 1

-----------------------------------------------------------------------------
Sent(m) == \E k \in 1..Len(msgs) : msgs[k] = m

MutationFailure == [type |-> "HTTPException", origin |-> "mutation"]

(* C11: when all checks passed and the mutation call raised                 *)
(* discord.Forbidden, the message sent is the fixed "I don't have the       *)
(* required permissions" one and no text of the fault is sent; when the     *)
(* call raised another exception, the message sent is "An error occurred"   *)
(* carrying the description of that very exception.  (Nothing is delivered  *)
(* when sending from the except clause raises in turn.)                     *)
C11_FaultMessages ==
    /\ (Done /\ fault = "Forbidden")
          => /\ errText = <<>>
             /\ msgs = (IF raised THEN <<>> ELSE <<"no_permissions">>)
    /\ (Done /\ fault = "HTTPException")
          => IF raised
               THEN msgs = <<>> /\ errText = <<>>
               ELSE msgs = <<"an_error_occurred">>
                    /\ errText = <<Describe(MutationFailure)>>

C11_Witness ==
    /\ Done /\ HandlerRan /\ HandlerChecksPass /\ inv.handler = "silence_slash"
    /\ fault = "Forbidden" /\ msgs = <<"no_permissions">> /\ errText = <<>>

\* The invocation ended in one of the failure categories.
FailureOutcome ==
    \/ guard = "false"
    \/ HandlerRan /\ ~HandlerChecksPass
    \/ fault \in {"Forbidden", "HTTPException"}

(* C12: every invocation that ends in a failure (unauthorized, hierarchy    *)
(* violation, voice precondition, permission fault, other platform fault)   *)
(* has sent exactly one message for it and no exception has left the        *)
(* handler.                                                                 *)
C12_FailuresHandled ==
    (Done /\ FailureOutcome) => Len(msgs) = 1 /\ ~raised

(* C19: "I don't have the required permissions" or "An error occurred" is   *)
(* sent only when the mutation of the invocation did not take effect, and   *)
(* "Successfully" only after the mutation call returned, also when          *)
(* delivering the confirmation fails.                                       *)
C19_MessageAgreesWithEffect ==
    /\ (Sent("no_permissions") \/ Sent("an_error_occurred")) => fault # "returned"
    /\ Sent("successfully") => fault = "returned"

-----------------------------------------------------------------------------
\* The flags each voice action is assigned: "True", "False", or Unset for a
\* flag the action must leave alone.
AssignedMute(a) ==
    CASE a \in {"mute", "silence"} -> "True"
      [] a \in {"unmute", "unsilence"} -> "False"
      [] OTHER -> Unset

AssignedDeafen(a) ==
    CASE a \in {"deafen", "silence"} -> "True"
      [] a \in {"undeafen", "unsilence"} -> "False"
      [] OTHER -> Unset

FlagAfter(assigned, before) == IF assigned = Unset THEN before ELSE assigned = "True"

(* C17: once the mutation call of a voice action has returned, exactly one  *)
(* member.edit call was issued, it carries exactly the flags the action is  *)
(* assigned (both of them, in that one call, for silence and unsilence),    *)
(* the assigned flags have their new value and a flag that is not assigned  *)
(* has the value it had before; until then the flags are untouched.         *)
C17_AssignedFlagsOnly ==
    /\ (HandlerRan /\ IsVoice /\ fault = "returned")
          => LET a == Handler(inv.handler).action
             IN /\ Len(calls) = 1
                /\ calls[1].op = "edit"
                /\ calls[1].mute = AssignedMute(a)
                /\ calls[1].deafen = AssignedDeafen(a)
                /\ flags.mute = FlagAfter(AssignedMute(a), inv.flags.mute)
                /\ flags.deafen = FlagAfter(AssignedDeafen(a), inv.flags.deafen)
    /\ fault # "returned" => flags = inv.flags
    /\ (HandlerRan /\ ~IsVoice) => flags = inv.flags

C17_Witness ==
    /\ Done /\ inv.handler = "silence_slash" /\ fault = "returned"
    /\ inv.flags = [mute |-> FALSE, deafen |-> FALSE]
    /\ flags = [mute |-> TRUE, deafen |-> TRUE]
    /\ Len(calls) = 1 /\ msgs = <<"successfully">>

-----------------------------------------------------------------------------
\* What handler h does with request i once the check has let it in: the
\* message of the first comparison that rejects, or the call it issues.
Verdict(h, i) ==
    LET checks == Handler(h).checks
        rejecting == {k \in 1..Len(checks) : Rejects(checks[k], i)}
    IN IF rejecting = {}
         THEN [outcome |-> "accept", kind |-> "none", call |-> Handler(h).call]
         ELSE LET first == CHOOSE k \in rejecting : \A j \in rejecting : k <= j
              IN [outcome |-> "reject", kind |-> RejectMsg(checks[first]),
                  call |-> EditCall(Unset, Unset, <<>>)]

\* The handler of the invocation in flight has accepted or rejected.
Decided == HandlerRan /\ (calls # <<>> \/ Done)

\* What the invocation in flight did.
Observed ==
    IF calls # <<>>
      THEN [outcome |-> "accept", kind |-> "none", call |-> calls[1]]
      ELSE [outcome |-> "reject", kind |-> msgs[1],
            call |-> EditCall(Unset, Unset, <<>>)]

\* The commands of both files that carry out the same action as h.
SameAction(h) ==
    {g \in HandlerNames : Handler(g).action = Handler(h).action}

\* A call without its audit-log reason.
Effect(call) == [op |-> call.op, mute |-> call.mute, deafen |-> call.deafen]

SameSurface(g, h) == g \in ContextMenus <=> h \in ContextMenus

-----------------------------------------------------------------------------
(* The configuration commands addrole and removerole (the same logic in     *)
(* both files: slash commands in the first, prefix commands in the second). *)
(* `async with self.config.guild(guild).mod_roles() as mod_roles:` takes    *)
(* the lock of the guild's mod_roles value, reads the list, hands a copy to *)
(* the body and, on leaving, writes the list back if the body changed it    *)
(* and releases the lock.  Every await is a step boundary, so two commands  *)
(* on the same guild interleave.                                            *)

\* Number of configuration commands followed in one behaviour.
MaxCmds == 3

Active == {t \in Tasks : cpc[t] \in {"acquire", "read", "body", "exit"}}

\* list.remove(x): the list without the first occurrence of x.
RemoveFirst(list, x) ==
    LET k == CHOOSE j \in 1..Len(list) :
                 list[j] = x /\ \A i \in 1..(j - 1) : list[i] # x
    IN SubSeq(list, 1, k - 1) \o SubSeq(list, k + 1, Len(list))

(* A member with the manage-guild permission invokes addrole or removerole. *)
InvokeConfig(t) ==
    /\ cpc[t] = "idle"
    /\ Len(log) + Cardinality(Active) < MaxCmds
    /\ \E op \in {"add", "remove"}, role \in Roles :
          cmd' = [cmd EXCEPT ![t] = [op |-> op, role |-> role]]
    /\ cpc' = [cpc EXCEPT ![t] = "acquire"]
    /\ UNCHANGED <<mod_roles, invVars, raw, orig, reply, lock, log>>

\* Variant of AcquireLock for mod_roles(acquire_lock=False).
AcquireLock_NoLock(t) ==
    /\ cpc[t] = "acquire"
    /\ cpc' = [cpc EXCEPT ![t] = "read"]
    /\ UNCHANGED <<mod_roles, invVars, cmd, raw, orig, reply, lock, log>>

(* Entering `async with ...mod_roles()`: the value's lock is awaited.       *)
AcquireLock(t) ==
    /\ cpc[t] = "acquire"
    /\ lock = 0
    /\ lock' = t
    /\ cpc' = [cpc EXCEPT ![t] = "read"]
    /\ UNCHANGED <<mod_roles, invVars, cmd, raw, orig, reply, log>>

(* Entering, continued: the list is read; the body gets it as `mod_roles`   *)
(* and a copy is kept to see on exit whether the body changed it.           *)
ReadValue(t) ==
    /\ cpc[t] = "read"
    /\ raw' = [raw EXCEPT ![t] = mod_roles]
    /\ orig' = [orig EXCEPT ![t] = mod_roles]
    /\ cpc' = [cpc EXCEPT ![t] = "body"]
    /\ UNCHANGED <<mod_roles, invVars, cmd, reply, lock, log>>

\* Variant of add_mod_role that appends without looking.
add_mod_role_NoMembershipTest(t) ==
    /\ cpc[t] = "body"
    /\ cmd[t].op = "add"
    /\ raw' = [raw EXCEPT ![t] = Append(raw[t], cmd[t].role)]
    /\ reply' = [reply EXCEPT ![t] = "has_been_added"]
    /\ cpc' = [cpc EXCEPT ![t] = "exit"]
    /\ UNCHANGED <<mod_roles, invVars, cmd, orig, lock, log>>

\* Variant of add_mod_role with the branches of the test exchanged.
add_mod_role_TestInverted(t) ==
    /\ cpc[t] = "body"
    /\ cmd[t].op = "add"
    /\ IF cmd[t].role \notin Range(raw[t])
         THEN /\ reply' = [reply EXCEPT ![t] = "is_already_a_moderator_role"]
              /\ UNCHANGED raw
         ELSE /\ raw' = [raw EXCEPT ![t] = Append(raw[t], cmd[t].role)]
              /\ reply' = [reply EXCEPT ![t] = "has_been_added"]
    /\ cpc' = [cpc EXCEPT ![t] = "exit"]
    /\ UNCHANGED <<mod_roles, invVars, cmd, orig, lock, log>>

(* Body of add_mod_role.                                                    *)
add_mod_role(t) ==
    /\ cpc[t] = "body"
    /\ cmd[t].op = "add"
    /\ IF cmd[t].role \in Range(raw[t])
         THEN /\ reply' = [reply EXCEPT ![t] = "is_already_a_moderator_role"]
              /\ UNCHANGED raw
         ELSE /\ raw' = [raw EXCEPT ![t] = Append(raw[t], cmd[t].role)]
              /\ reply' = [reply EXCEPT ![t] = "has_been_added"]
    /\ cpc' = [cpc EXCEPT ![t] = "exit"]
    /\ UNCHANGED <<mod_roles, invVars, cmd, orig, lock, log>>

\* Variant of remove_mod_role that removes without looking: list.remove
\* raises ValueError for a value that is not in the list.
remove_mod_role_NoMembershipTest(t) ==
    /\ cpc[t] = "body"
    /\ cmd[t].op = "remove"
    /\ IF cmd[t].role \notin Range(raw[t])
         THEN /\ reply' = [reply EXCEPT ![t] = "ValueError"]
              /\ UNCHANGED raw
         ELSE /\ raw' = [raw EXCEPT ![t] = RemoveFirst(raw[t], cmd[t].role)]
              /\ reply' = [reply EXCEPT ![t] = "has_been_removed"]
    /\ cpc' = [cpc EXCEPT ![t] = "exit"]
    /\ UNCHANGED <<mod_roles, invVars, cmd, orig, lock, log>>

(* Body of remove_mod_role.                                                 *)
remove_mod_role(t) ==
    /\ cpc[t] = "body"
    /\ cmd[t].op = "remove"
    /\ IF cmd[t].role \notin Range(raw[t])
         THEN /\ reply' = [reply EXCEPT ![t] = "is_not_a_moderator_role"]
              /\ UNCHANGED raw
         ELSE /\ raw' = [raw EXCEPT ![t] = RemoveFirst(raw[t], cmd[t].role)]
              /\ reply' = [reply EXCEPT ![t] = "has_been_removed"]
    /\ cpc' = [cpc EXCEPT ![t] = "exit"]
    /\ UNCHANGED <<mod_roles, invVars, cmd, orig, lock, log>>

(* Leaving the with-block: the list is written back if it differs from the  *)
(* copy taken on entry, and the lock is released.  The command is logged    *)
(* with the persisted list before and after it.                             *)
ExitContext(t) ==
    /\ cpc[t] = "exit"
    /\ mod_roles' = (IF raw[t] # orig[t] THEN raw[t] ELSE mod_roles)
    /\ lock' = (IF lock = t THEN 0 ELSE lock)
    /\ log' = Append(log, [op |-> cmd[t].op, role |-> cmd[t].role,
                           reply |-> reply[t], before |-> mod_roles,
                           after |-> mod_roles',
                           overlapped |-> Active # {t}])
    /\ cpc' = [cpc EXCEPT ![t] = "done"]
    /\ UNCHANGED <<invVars, cmd, raw, orig, reply>>

(* The command is over.                                                     *)
FinishConfig(t) ==
    /\ cpc[t] = "done"
    /\ cpc' = [cpc EXCEPT ![t] = "idle"]
    /\ cmd' = [cmd EXCEPT ![t] = NoCmd]
    /\ raw' = [raw EXCEPT ![t] = <<>>]
    /\ orig' = [orig EXCEPT ![t] = <<>>]
    /\ reply' = [reply EXCEPT ![t] = "none"]
    /\ UNCHANGED <<mod_roles, invVars, lock, log>>

\* A guild's configuration starts as the registered default, `mod_roles: []`.
ConfigInit ==
    /\ mod_roles = <<>>
    /\ InvIdle
    /\ CfgIdle

ConfigNext ==
    \/ \E t \in Tasks : InvokeConfig(t)
    \/ \E t \in Tasks : AcquireLock(t)
    \/ \E t \in Tasks : ReadValue(t)
    \/ \E t \in Tasks : add_mod_role(t)
    \/ \E t \in Tasks : remove_mod_role(t)
    \/ \E t \in Tasks : ExitContext(t)
    \/ \E t \in Tasks : FinishConfig(t)

ConfigSpec == ConfigInit /\ [][ConfigNext]_vars

-----------------------------------------------------------------------------
NoDuplicates(list) == \A a, b \in 1..Len(list) : a # b => list[a] # list[b]

Occurrences(list, x) == Cardinality({k \in 1..Len(list) : list[k] = x})

(* C13: after any sequence of addrole and removerole commands on a guild,   *)
(* starting from the default empty list, the persisted mod_roles list holds *)
(* no role id more than once (nor does the list a command is working on).   *)
C13_NoDuplicateRoles ==
    /\ NoDuplicates(mod_roles)
    /\ \A t \in Tasks : NoDuplicates(raw[t])
    /\ \A k \in 1..Len(log) : NoDuplicates(log[k].after)

C13_Witness ==
    /\ Len(log) = 3
    /\ log[1].op = "add" /\ log[2].op = "add" /\ log[3].op = "add"
    /\ log[1].role = log[3].role /\ log[1].role # log[2].role
    /\ Len(mod_roles) = 2

(* C14: addrole invoked twice with the same role: the second call leaves    *)
(* the configuration as the first call left it, with the role in it once,   *)
(* and replies "already a moderator role" instead of "has been added".      *)
C14_AddRoleIdempotent ==
    \A k \in 2..Len(log) :
       (/\ log[k - 1].op = "add" /\ log[k].op = "add"
        /\ log[k - 1].role = log[k].role)
       => /\ log[k].reply = "is_already_a_moderator_role"
          /\ log[k].after = log[k - 1].after
          /\ Occurrences(log[k].after, log[k].role) = 1
          /\ log[k - 1].reply = "has_been_added"
                => log[k - 1].after = Append(log[k - 1].before, log[k].role)

C14_Witness ==
    /\ Len(log) = 2
    /\ log[1].op = "add" /\ log[2].op = "add" /\ log[1].role = log[2].role
    /\ log[1].reply = "has_been_added"
    /\ log[2].reply = "is_already_a_moderator_role"
    /\ mod_roles = <<log[1].role>>

(* C15: removerole invoked with a role that is not in the guild's mod_roles *)
(* leaves the persisted list as it was, elements and order, and replies     *)
(* "is not a moderator role"; nothing is raised.                            *)
C15_RemoveAbsentRole ==
    \A k \in 1..Len(log) :
       (log[k].op = "remove" /\ log[k].role \notin Range(log[k].before))
       => /\ log[k].after = log[k].before
          /\ log[k].reply = "is_not_a_moderator_role"

C15_Witness ==
    /\ Len(log) = 2
    /\ log[1].op = "add" /\ log[1].reply = "has_been_added"
    /\ log[2].op = "remove" /\ log[2].role # log[1].role
    /\ log[2].reply = "is_not_a_moderator_role"
    /\ mod_roles = <<log[1].role>>

\* What a command does to a list when nothing else runs.
ApplyCommand(list, c) ==
    IF c.op = "add"
      THEN (IF c.role \in Range(list) THEN list ELSE Append(list, c.role))
      ELSE (IF c.role \in Range(list) THEN RemoveFirst(list, c.role) ELSE list)

RECURSIVE Replay(_, _)
Replay(list, entries) ==
    IF entries = <<>> THEN list
    ELSE Replay(ApplyCommand(list, Head(entries)), Tail(entries))

(* C16: concurrent configuration commands on a guild are serialized over    *)
(* their whole read-modify-write sequence: at most one command is between   *)
(* its read and its write, and the persisted list is always the result of   *)
(* carrying out the completed commands one after the other, so no update is *)
(* lost however two commands interleave.                                    *)
C16_NoLostUpdate ==
    /\ Cardinality({t \in Tasks : cpc[t] \in {"read", "body", "exit"}}) <= 1
    /\ mod_roles = Replay(<<>>, log)
    /\ \A k \in 1..Len(log) : log[k].after = ApplyCommand(log[k].before, log[k])

C16_Witness ==
    /\ Len(log) = 2
    /\ log[1].overlapped
    /\ log[1].op = "add" /\ log[2].op = "add" /\ log[1].role # log[2].role
    /\ mod_roles = <<log[1].role, log[2].role>>

====
